---- MODULE Spec2Model ----
(***************************************************************************)
(* The rate-limited request core of attack-sdk-go, pkg/api/http.go.        *)
(*                                                                         *)
(* The file holds two versions of the client: the timestamp-log limiter    *)
(* (lines 1-342) and the token-bucket limiter built on                     *)
(* golang.org/x/time/rate (lines 344-720).  Spec and SpecSeq run the       *)
(* token-bucket client, SpecApi the same with SetRateLimit called from     *)
(* outside, SpecLog the timestamp-log client, and SpecBuf follows ReqJSON  *)
(* and ReqBuf over what reqBase returns.  SpecShared has two goroutines and *)
(* a server that corrects the budget, SpecDefault one goroutine with small  *)
(* and large budgets, SpecGet GetJSON calls from the limiter to ReqBuf's    *)
(* switch, and SpecWire the request header and the parsed response headers. *)
(*                                                                         *)
(* Time is counted in ticks of 5 seconds, so a minute is 12 ticks.  The    *)
(* bucket of rate.Limiter is kept in units of 1/Minute token: a limiter of *)
(* `limit` requests per minute refills `limit` units per tick and one      *)
(* request costs Minute units.  Limits are taken among the divisors of     *)
(* Minute, so that every duration the limiter computes is a whole number   *)
(* of ticks and no rounding enters.                                        *)
(***************************************************************************)
EXTENDS Integers, Sequences, FiniteSets, Bags, TLC

\* ------------------------------------------------------------------ bounds
MaxTime == 2
MaxTimeSeq == 7
MaxTimeLog == 12
MaxLimit == 3
MaxCalls == 3
MaxLimiters == 2
NumCallers == 3
\* The width of int and int64, scaled down from 64 bits so that a number out
\* of range is a string of three digits.
IntSize == 8

\* --------------------------------------------------------- program constants
\* The window of both limiters: 60 seconds, in ticks of 5 seconds.
Minute == 12
\* The short bound of reqBase, 5*time.Second, in ticks.
FiveSec == 1
StatusOK == 200
StatusTooManyRequests == 429

\* rate.InfDuration
InfDuration == 1000 * Minute

Callers == 1..NumCallers
Limits == {n \in 1..MaxLimit : Minute % n = 0}

VARIABLES
    now,          \* time.Now(), in ticks
    heap,         \* the RateLimiter objects ever constructed, by address
    rateLimiter,  \* HTTPAPI.rateLimiter: the address of the client's limiter
    procs,        \* the goroutines that call the client
    pc,           \* each goroutine's position in reqBase
    loc,          \* each goroutine's locals in reqBase
    calls,        \* the number of reqBase calls started
    horizon,      \* the time the model follows the client for
    server,       \* the responses the server may give
    fill,         \* the tokens the first limiter held when the model took it up
    reconf,       \* history: the last SetRateLimit call made from outside
    buf,          \* a ReqJSON call: its inputs and what it did
    hist,         \* history: the bag of admissions granted, <<limiter, time>>
    latest,       \* history: what IsAllowed returned last
    waited,       \* history: what WaitMaxDuration returned last
    returned      \* history: what reqBase returned last

env == <<procs, horizon, server, fill, reconf, buf>>
vars == <<now, heap, rateLimiter, env, pc, loc, calls, hist, latest, waited,
          returned>>

\* ------------------------------------------------- golang.org/x/time/rate
\* Limit.tokensFromDuration, in bucket units.
tokensFromDuration(limit, d) ==
    IF limit <= 0 THEN 0 ELSE d * limit

\* Limit.durationFromTokens, in ticks (exact: limit divides Minute).
durationFromTokens(limit, tokens) ==
    IF limit <= 0 THEN InfDuration ELSE tokens \div limit

\* Limiter.advance: the tokens of lim at time t.
advance(lim, t) ==
    LET last == IF t < lim.last THEN t ELSE lim.last
        tokens == lim.tokens + tokensFromDuration(lim.rps, t - last)
    IN  IF tokens > lim.burst * Minute THEN lim.burst * Minute ELSE tokens

NoReservation == [ok |-> FALSE, tokens |-> 0, timeToAct |-> 0, limit |-> 0]

\* A reserveN that grants the reservation without taking the token.
reserveNKeepingToken(lim, t, maxFutureReserve) ==
    [lim |-> [lim EXCEPT !.last = t, !.tokens = advance(lim, t)],
     r |-> [ok |-> TRUE, tokens |-> 1, timeToAct |-> t, limit |-> lim.rps]]

\* Limiter.reserveN(t, 1, maxFutureReserve): the limiter after it and the
\* Reservation.  With limit = 0 the burst is 0 as well (both come from
\* requestsPerMinute), so that branch never grants.
reserveN(lim, t, maxFutureReserve) ==
    IF lim.rps = 0
    THEN [lim |-> lim, r |-> NoReservation]
    ELSE LET tokens == advance(lim, t) - Minute
             waitDuration == IF tokens < 0
                             THEN durationFromTokens(lim.rps, -tokens)
                             ELSE 0
             ok == 1 <= lim.burst /\ waitDuration <= maxFutureReserve
         IN  IF ok
             THEN [lim |-> [lim EXCEPT !.last = t, !.tokens = tokens,
                                       !.lastEvent = t + waitDuration],
                   r |-> [ok |-> TRUE, tokens |-> 1,
                          timeToAct |-> t + waitDuration, limit |-> lim.rps]]
             ELSE [lim |-> lim,
                   r |-> [NoReservation EXCEPT !.limit = lim.rps]]

\* Reservation.DelayFrom(t).
DelayFrom(r, t) ==
    IF ~r.ok THEN InfDuration
    ELSE IF r.timeToAct - t < 0 THEN 0 ELSE r.timeToAct - t

\* A CancelAt that gives back five seconds' worth of refill too much.
CancelAtGenerous(lim, r, t) ==
    LET tokens == advance(lim, t) + r.tokens * Minute + lim.rps
    IN  [lim EXCEPT !.last = t,
                    !.tokens = IF tokens > lim.burst * Minute
                               THEN lim.burst * Minute ELSE tokens]

\* Reservation.CancelAt(t): the limiter after the cancel.
CancelAt(lim, r, t) ==
    IF ~r.ok \/ r.tokens = 0 \/ r.timeToAct < t
    THEN lim
    ELSE LET restoreTokens == r.tokens * Minute
                 - tokensFromDuration(r.limit, lim.lastEvent - r.timeToAct)
             tokens == advance(lim, t) + restoreTokens
             prevEvent == r.timeToAct
                 - durationFromTokens(r.limit, r.tokens * Minute)
         IN  IF restoreTokens <= 0
             THEN lim
             ELSE [lim EXCEPT
                     !.last = t,
                     !.tokens = IF tokens > lim.burst * Minute
                                THEN lim.burst * Minute ELSE tokens,
                     !.lastEvent = IF r.timeToAct = lim.lastEvent /\ prevEvent >= t
                                   THEN prevEvent ELSE lim.lastEvent]

\* ---------------------------------------------------- the token-bucket client
\* NewRateLimiter(requestsPerMinute): the wrapper's stored limit, and the
\* rate.Limiter of rate requestsPerMinute/60 per second (rps, kept here per
\* minute, which is bucket units per tick) and burst requestsPerMinute, its
\* bucket full.
NewRateLimiter(requestsPerMinute) ==
    [limit |-> requestsPerMinute, rps |-> requestsPerMinute,
     burst |-> requestsPerMinute,
     tokens |-> requestsPerMinute * Minute, last |-> 0, lastEvent |-> 0]

NoError == [kind |-> "nil", wait |-> 0]
\* The sentinel ErrRateLimited itself.
ErrRateLimited == [kind |-> "ErrRateLimited", wait |-> 0]
\* fmt.Errorf("%w: retry after ...", ErrRateLimited, w)
WrapRateLimited(w) == [kind |-> "wrapErrRateLimited", wait |-> w]
\* errors.Is(err, ErrRateLimited)
IsRateLimited(err) == err.kind \in {"ErrRateLimited", "wrapErrRateLimited"}

\* A RateLimitInfo with nothing parsed into it.
NoRateInfo == [Limit |-> 0, RetryAfter |-> 0]

NoResult ==
    [body |-> "none", status |-> 0, err |-> NoError, sent |-> 0, hint |-> 0,
     rateInfo |-> NoRateInfo]

\* The locals of a goroutine outside reqBase.
Fresh ==
    [lim |-> 0, at |-> 0, r |-> NoReservation, hint |-> 0, since |-> 0, wake |-> 0,
     deadline |-> 0, wlim |-> 0, sent |-> 0]

\* ------------------------------------------------------------ the response
Digits == <<"0", "1", "2", "3", "4", "5", "6", "7", "8", "9">>
IsDigit(ch) == \E i \in 1..10 : Digits[i] = ch
DigitVal(ch) == (CHOOSE i \in 1..10 : Digits[i] = ch) - 1

RECURSIVE ParseDigits(_, _)
\* The value of the digit string s after a prefix of value acc.
ParseDigits(s, acc) ==
    IF s = <<>> THEN acc
    ELSE ParseDigits(Tail(s), 10 * acc + DigitVal(Head(s)))

\* The largest and the smallest value of an integer of IntSize bits.
MaxInt == 2 ^ (IntSize - 1) - 1
MinInt == -(2 ^ (IntSize - 1))

\* strconv.Atoi / strconv.ParseInt(v, 10, 64) with the error dropped: a
\* header is a sequence of characters; anything but an optional sign and
\* one or more digits is a syntax error and yields 0, and a number out of
\* range is a range error, which yields the nearest value of the type.
Atoi(s) ==
    LET signed == s # <<>> /\ Head(s) \in {"+", "-"}
        neg == signed /\ Head(s) = "-"
        digits == IF signed THEN Tail(s) ELSE s
        un == ParseDigits(digits, 0)
    IN  IF digits = <<>> \/ \E i \in 1..Len(digits) : ~IsDigit(digits[i])
        THEN 0
        ELSE IF ~neg /\ un > MaxInt THEN MaxInt
        ELSE IF neg /\ un > -MinInt THEN MinInt
        ELSE IF neg THEN -un
        ELSE un

\* parseRateLimitHeaders: headers.Get gives "" for an absent header.
parseRateLimitHeaders(headers) ==
    [Limit |-> IF headers.limit # <<>> THEN Atoi(headers.limit) ELSE 0,
     RetryAfter |-> IF headers.retryAfter # <<>> THEN Atoi(headers.retryAfter)
                    ELSE 0]

\* The x-ratelimit-limit and x-ratelimit-retry-after values a server sends.
LimitHeaders ==
    {<<>>, <<"0">>, <<"-", "1">>, <<"x">>} \cup {<<Digits[n + 1]>> : n \in Limits}
RetryHeaders == {<<>>, <<"0">>, <<"7">>}
Statuses == {StatusOK, StatusTooManyRequests}
\* A response: its status, the two headers reqBase uses, and whether reading
\* its body fails (a 429's body is not read).
Responses ==
    {r \in [status : Statuses, limit : LimitHeaders, retryAfter : RetryHeaders,
            readErr : BOOLEAN] :
        r.status = StatusTooManyRequests => ~r.readErr}

\* A server that answers 200 or a bare 429.
Plain ==
    {r \in Responses : r.limit = <<>> /\ r.retryAfter = <<>> /\ ~r.readErr}

\* The responses of a throttling server: plain ones, and 429s with or without
\* the rate-limit headers.
Throttling ==
    Plain \cup {r \in Responses : /\ r.status = StatusTooManyRequests
                                  /\ r.limit # <<"-", "1">>
                                  /\ r.limit # <<"x">>}

\* No SetRateLimit call has been made from outside.
NoReconf == [x |-> 0, lim |-> 0, was |-> 0, t |-> 0]

\* No ReqJSON call is looked at.
NoBuf == [stage |-> "none"]

NoOutcome ==
    [op |-> "none", lim |-> 0, t |-> 0, took |-> 0, ok |-> FALSE, hint |-> 0,
     leak |-> 0]

\* The client after NewHTTPAPI, its limiter of capacity n holding `tokens`.
InitClient(P, H, S, n, tokens) ==
    /\ now = 0
    /\ heap = <<[NewRateLimiter(n) EXCEPT !.tokens = tokens]>>
    /\ rateLimiter = 1
    /\ procs = P
    /\ horizon = H
    /\ server = S
    /\ fill = tokens
    /\ reconf = NoReconf
    /\ pc = [c \in Callers |-> "idle"]
    /\ loc = [c \in Callers |-> Fresh]
    /\ calls = 0
    /\ hist = EmptyBag
    /\ latest = NoOutcome
    /\ waited = NoOutcome
    /\ returned = NoResult

\* The same, with no ReqJSON call looked at.
InitWith(P, H, S, n, tokens) ==
    InitClient(P, H, S, n, tokens) /\ buf = NoBuf

\* The fill of a limiter of capacity n when the model takes the client up:
\* full (as constructed), drained, or a tick short of one token after a drain.
Fills(n) == {n * Minute, 0, Minute - n}

\* Concurrent callers on a client that may have been in use.
Init ==
    \E n \in Limits : \E tokens \in Fills(n) : InitWith(Callers, MaxTime, Plain, n, tokens)

\* time passes
Tick ==
    /\ now < horizon
    /\ now' = now + 1
    /\ UNCHANGED <<heap, rateLimiter, env, pc, loc, calls, hist, latest, waited,
                   returned>>

\* What a limiter operation returned: op is "IsAllowed" or "Wait", ok its
\* admission, hint the wait estimate, leak what a Cancel kept of the token,
\* took the time an IsAllowed call begun at time `at` was in progress for.
Outcome(op, l, at, ok, hint, leak) ==
    [op |-> op, lim |-> l, t |-> now, took |-> now - at, ok |-> ok,
     hint |-> hint, leak |-> leak]

\* The histories after a limiter operation returned o: hist counts the
\* admissions, by limiter and time.
Log(o) ==
    /\ hist' = IF o.ok THEN hist (+) SetToBag({<<o.lim, o.t>>}) ELSE hist
    /\ IF o.op = "IsAllowed"
       THEN latest' = o /\ waited' = waited
       ELSE waited' = o /\ latest' = latest

Silent == UNCHANGED <<hist, latest, waited>>

\* reqBase returns (body, status, err) to goroutine c.
Return(c, body, status, err, rateInfo) ==
    /\ returned' = [body |-> body, status |-> status, err |-> err,
                    sent |-> loc[c].sent, hint |-> loc[c].hint,
                    rateInfo |-> rateInfo]
    /\ loc' = [loc EXCEPT ![c] = Fresh]
    /\ pc' = [pc EXCEPT ![c] = "idle"]

\* reqBase past its admission step: the request is built and g.client.Do
\* sends it.
Proceed(c) ==
    /\ loc' = [loc EXCEPT ![c] = [Fresh EXCEPT !.lim = loc[c].lim,
                                                !.wlim = loc[c].wlim,
                                                !.hint = loc[c].hint,
                                                !.sent = loc[c].sent + 1]]
    /\ pc' = [pc EXCEPT ![c] = "inflight"]

\* reqBase calls g.rateLimiter.IsAllowed(): r.limiter.Reserve()
ProbeReserve(c) ==
    /\ c \in procs
    /\ pc[c] = "idle"
    /\ calls < MaxCalls
    /\ LET got == reserveN(heap[rateLimiter], now, InfDuration)
       IN  /\ heap' = [heap EXCEPT ![rateLimiter] = got.lim]
           /\ loc' = [loc EXCEPT ![c] = [Fresh EXCEPT !.lim = rateLimiter,
                                                     !.at = now,
                                                     !.r = got.r]]
    /\ pc' = [pc EXCEPT ![c] = "probe"]
    /\ calls' = calls + 1
    /\ UNCHANGED <<now, rateLimiter, env, hist, latest, waited, returned>>

\* IsAllowed: reservation.OK(), reservation.Delay(); the (true, 0) return and
\* the !OK return of (false, 0) (Cancel of a reservation that is not ok does
\* nothing), after which reqBase arms time.After(0).
ProbeDelay(c) ==
    /\ pc[c] = "probe"
    /\ LET r == loc[c].r
           delay == DelayFrom(r, now)
       IN  IF ~r.ok
           THEN /\ loc' = [loc EXCEPT ![c].r = NoReservation, ![c].at = 0,
                                      ![c].since = now, ![c].wake = now]
                /\ pc' = [pc EXCEPT ![c] = "sleep"]
                /\ Log(Outcome("IsAllowed", loc[c].lim, loc[c].at, FALSE, 0, 0))
           ELSE IF delay = 0
           THEN /\ Proceed(c)
                /\ Log(Outcome("IsAllowed", loc[c].lim, loc[c].at, TRUE, 0, 0))
           ELSE /\ loc' = [loc EXCEPT ![c].hint = delay]
                /\ pc' = [pc EXCEPT ![c] = "cancel"]
                /\ Silent
    /\ UNCHANGED <<now, heap, rateLimiter, env, calls, returned>>

\* What a Cancel kept of the reserved token: the tokens the limiter would
\* hold at t with the token given back, less the tokens it holds.
Leak(before, after, t) ==
    LET full == advance(before, t) + Minute
        given == IF full > before.burst * Minute
                 THEN before.burst * Minute ELSE full
    IN  given - advance(after, t)

\* A reqBase that sleeps only for waits shorter than five seconds.
ProbeCancelShortOnly(c) ==
    /\ pc[c] = "cancel"
    /\ LET l == loc[c].lim
           after == CancelAt(heap[l], loc[c].r, now)
       IN  /\ heap' = [heap EXCEPT ![l] = after]
           /\ Log(Outcome("IsAllowed", l, loc[c].at, FALSE, loc[c].hint,
                                           Leak(heap[l], after, now)))
           /\ IF loc[c].hint < FiveSec
              THEN /\ loc' = [loc EXCEPT ![c].r = NoReservation,
                                         ![c].at = 0,
                                         ![c].since = now,
                                         ![c].wake = now + loc[c].hint]
                   /\ pc' = [pc EXCEPT ![c] = "sleep"]
              ELSE /\ loc' = [loc EXCEPT ![c].r = NoReservation,
                                         ![c].at = 0,
                                         ![c].since = now,
                                         ![c].deadline = now + FiveSec]
                   /\ pc' = [pc EXCEPT ![c] = "waitctx"]
    /\ UNCHANGED <<now, rateLimiter, env, calls, returned>>

\* IsAllowed: reservation.Cancel() and the return of (false, delay); then
\* reqBase arms time.After(waitTime) or makes the 5-second context.
ProbeCancel(c) ==
    /\ pc[c] = "cancel"
    /\ LET l == loc[c].lim
           after == CancelAt(heap[l], loc[c].r, now)
       IN  /\ heap' = [heap EXCEPT ![l] = after]
           /\ Log(Outcome("IsAllowed", l, loc[c].at, FALSE, loc[c].hint,
                                           Leak(heap[l], after, now)))
           /\ IF loc[c].hint <= FiveSec
              THEN /\ loc' = [loc EXCEPT ![c].r = NoReservation,
                                         ![c].at = 0,
                                         ![c].since = now,
                                         ![c].wake = now + loc[c].hint]
                   /\ pc' = [pc EXCEPT ![c] = "sleep"]
              ELSE /\ loc' = [loc EXCEPT ![c].r = NoReservation,
                                         ![c].at = 0,
                                         ![c].since = now,
                                         ![c].deadline = now + FiveSec]
                   /\ pc' = [pc EXCEPT ![c] = "waitctx"]
    /\ UNCHANGED <<now, rateLimiter, env, calls, returned>>

\* reqBase: case <-time.After(waitTime); context.Background() is never done.
SleepWake(c) ==
    /\ pc[c] = "sleep"
    /\ now >= loc[c].wake
    /\ Proceed(c)
    /\ UNCHANGED <<now, heap, rateLimiter, env, calls, hist, latest, waited, returned>>

\* reqBase's error return after WaitMaxDuration failed with an error of this
\* kind: context.DeadlineExceeded becomes ErrRateLimited with the probe's wait.
WaitFailed(c, kind) ==
    IF kind = "DeadlineExceeded"
    THEN Return(c, "nil", 0, WrapRateLimited(loc[c].hint), NoRateInfo)
    ELSE Return(c, "nil", 0, [kind |-> kind, wait |-> 0], NoRateInfo)

\* Whether a context of this deadline is done at time t: at the tick of the
\* deadline it may or may not be.
CtxDone(deadline, t) ==
    IF t > deadline THEN {TRUE}
    ELSE IF t = deadline THEN {TRUE, FALSE} ELSE {FALSE}

\* g.rateLimiter.WaitMaxDuration(ctx, 5s): rate.Limiter.wait up to its select.
\* The limiter is read from the client again.
WaitEnter(c) ==
    /\ pc[c] = "waitctx"
    /\ \E done \in CtxDone(loc[c].deadline, now) :
         LET l == rateLimiter
             lim == heap[l]
             got == reserveN(lim, now, loc[c].deadline - now)
             fail(kind) == /\ WaitFailed(c, kind)
                           /\ Log(Outcome("Wait", l, now, FALSE, 0, 0))
                           /\ heap' = heap
         IN  IF 1 > lim.burst THEN fail("rate: exceeds burst")
             ELSE IF done THEN fail("DeadlineExceeded")
             ELSE IF ~got.r.ok THEN fail("rate: would exceed deadline")
             ELSE /\ heap' = [heap EXCEPT ![l] = got.lim]
                  /\ returned' = returned
                  /\ IF DelayFrom(got.r, now) = 0
                     THEN /\ Proceed(c)
                          /\ Log(Outcome("Wait", l, now, TRUE, 0, 0))
                     ELSE /\ loc' = [loc EXCEPT ![c].wlim = l, ![c].r = got.r]
                          /\ pc' = [pc EXCEPT ![c] = "waiting"]
                          /\ Silent
    /\ UNCHANGED <<now, rateLimiter, env, calls>>

\* rate.Limiter.wait: case <-ch, the timer of the reservation's delay.
WaitTimer(c) ==
    /\ pc[c] = "waiting"
    /\ now >= loc[c].r.timeToAct
    /\ Proceed(c)
    /\ Log(Outcome("Wait", loc[c].wlim, now, TRUE, 0, 0))
    /\ UNCHANGED <<now, heap, rateLimiter, env, calls, returned>>

\* rate.Limiter.wait: case <-ctx.Done(): r.Cancel(), return ctx.Err().
WaitCtxDone(c) ==
    /\ pc[c] = "waiting"
    /\ now >= loc[c].deadline
    /\ LET l == loc[c].wlim
           after == CancelAt(heap[l], loc[c].r, now)
       IN  /\ heap' = [heap EXCEPT ![l] = after]
           /\ Log(Outcome("Wait", l, now, FALSE, 0,
                                           Leak(heap[l], after, now)))
    /\ WaitFailed(c, "DeadlineExceeded")
    /\ UNCHANGED <<now, rateLimiter, env, calls>>

\* A SetRateLimit that carries the old limiter's tokens over.
SetRateLimitKeepingTokens(requestsPerMinute) ==
    /\ heap' = Append(heap, [NewRateLimiter(requestsPerMinute) EXCEPT
                               !.tokens = heap[rateLimiter].tokens,
                               !.last = heap[rateLimiter].last,
                               !.lastEvent = heap[rateLimiter].lastEvent])
    /\ rateLimiter' = Len(heap) + 1

\* A SetRateLimit that changes the fields of the client's limiter in place.
SetRateLimitInPlace(requestsPerMinute) ==
    /\ heap' = [heap EXCEPT ![rateLimiter].limit = requestsPerMinute,
                            ![rateLimiter].rps = requestsPerMinute,
                            ![rateLimiter].burst = requestsPerMinute]
    /\ rateLimiter' = rateLimiter

\* HTTPAPI.SetRateLimit(requestsPerMinute): a new limiter object.
SetRateLimit(requestsPerMinute) ==
    /\ heap' = Append(heap, NewRateLimiter(requestsPerMinute))
    /\ rateLimiter' = Len(heap) + 1

\* A transport failure after which the request is sent once more.
TransportErrorRetrying(c) ==
    /\ pc[c] = "inflight"
    /\ Proceed(c)
    /\ UNCHANGED <<now, heap, rateLimiter, env, calls, hist, latest, waited, returned>>

\* reqBase: client.Do fails.
TransportError(c) ==
    /\ pc[c] = "inflight"
    /\ Return(c, "nil", 0, [kind |-> "transport", wait |-> 0], NoRateInfo)
    /\ UNCHANGED <<now, heap, rateLimiter, env, calls, hist, latest, waited>>

\* A reqBase that treats a 429 as an error only when it carries
\* x-ratelimit-retry-after, and returns its body otherwise.
HandleResponseLenient(c, resp) ==
    LET rateInfo == parseRateLimitHeaders(resp)
    IN  IF resp.status = StatusTooManyRequests /\ rateInfo.RetryAfter > 0
        THEN /\ IF rateInfo.Limit > 0 /\ rateInfo.Limit # heap[rateLimiter].limit
                THEN SetRateLimit(rateInfo.Limit)
                ELSE UNCHANGED <<heap, rateLimiter>>
             /\ Return(c, "nil", resp.status,
                       WrapRateLimited(rateInfo.RetryAfter), rateInfo)
        ELSE /\ UNCHANGED <<heap, rateLimiter>>
             /\ Return(c, "data", resp.status,
                       IF resp.readErr THEN [kind |-> "read", wait |-> 0]
                       ELSE NoError,
                       rateInfo)

\* reqBase from parseRateLimitHeaders to its return, on the response resp.
HandleResponse(c, resp) ==
    LET rateInfo == parseRateLimitHeaders(resp)
    IN  IF resp.status = StatusTooManyRequests
        THEN /\ IF rateInfo.Limit > 0 /\ rateInfo.Limit # heap[rateLimiter].limit
                THEN SetRateLimit(rateInfo.Limit)
                ELSE UNCHANGED <<heap, rateLimiter>>
             /\ Return(c, "nil", resp.status,
                       IF rateInfo.RetryAfter > 0
                       THEN WrapRateLimited(rateInfo.RetryAfter)
                       ELSE ErrRateLimited,
                       rateInfo)
        ELSE /\ UNCHANGED <<heap, rateLimiter>>
             /\ Return(c, "data", resp.status,
                       IF resp.readErr THEN [kind |-> "read", wait |-> 0]
                       ELSE NoError,
                       rateInfo)

\* The server answers.  A response that would make the client construct
\* one limiter more than MaxLimiters is not offered.
Respond(c) ==
    /\ pc[c] = "inflight"
    /\ \E resp \in server :
         /\ HandleResponse(c, resp)
         /\ Len(heap') <= MaxLimiters
    /\ UNCHANGED <<now, env, calls, hist, latest, waited>>

Next ==
    \/ Tick
    \/ \E c \in Callers :
         \/ ProbeReserve(c)
         \/ ProbeDelay(c)
         \/ ProbeCancel(c)
         \/ SleepWake(c)
         \/ WaitEnter(c)
         \/ WaitTimer(c)
         \/ WaitCtxDone(c)
         \/ TransportError(c)
         \/ Respond(c)

Spec == Init /\ [][Next]_vars

\* One goroutine calling a new client, one call after the other, followed
\* for longer.
InitSeq ==
    \E n \in Limits : InitWith({1}, MaxTimeSeq, Plain, n, n * Minute)

SpecSeq == InitSeq /\ [][Next]_vars

\* ------------------------------------- the client with SetRateLimit called
\* The arguments SetRateLimit is called with from outside.
SetArgs == {-1, 0} \cup Limits

\* Some goroutine calls g.SetRateLimit(x), while reqBase calls may be under
\* way.  No more than MaxLimiters limiters are constructed.
CallSetRateLimit(x) ==
    /\ Len(heap) < MaxLimiters
    /\ SetRateLimit(x)
    /\ reconf' = [x |-> x, lim |-> Len(heap) + 1, was |-> rateLimiter, t |-> now]
    /\ UNCHANGED <<now, procs, horizon, server, fill, buf, pc, loc, calls, hist,
                   latest, waited, returned>>

\* One goroutine calling a client in use (its limiter full, drained, or two
\* ticks short of a token), a throttling server, and SetRateLimit called from
\* outside.
InitApi ==
    \E n \in Limits : \E tokens \in {n * Minute, 0, Minute - 2 * n} :
        InitWith({1}, MaxTime, Throttling, n, tokens)

NextApi ==
    \/ Tick
    \/ \E x \in SetArgs : CallSetRateLimit(x)
    \/ \E c \in Callers :
         \/ ProbeReserve(c)
         \/ ProbeDelay(c)
         \/ ProbeCancel(c)
         \/ SleepWake(c)
         \/ WaitEnter(c)
         \/ WaitTimer(c)
         \/ WaitCtxDone(c)
         \/ TransportError(c)
         \/ Respond(c)

SpecApi == InitApi /\ [][NextApi]_vars

\* ------------------------------------------------------ ReqBuf and ReqJSON
StatusCreated == 201
StatusBadRequest == 400
StatusUnauthorized == 401
StatusNotFound == 404

\* The sentinels next to ErrRateLimited.
ErrApiKeyInvalid == [kind |-> "ErrApiKeyInvalid", wait |-> 0]
ErrNotFound == [kind |-> "ErrNotFound", wait |-> 0]

\* errors.Is(err, target) for a sentinel target: err is the sentinel itself
\* or wraps it (only ErrRateLimited is ever wrapped, with %w).
errorsIs(err, target) ==
    \/ err = target
    \/ err.kind = "wrapErrRateLimited" /\ target = ErrRateLimited

\* fmt.Errorf("%v: %v", a, b): a new error value of that text.
Errorf(a, b) == [kind |-> "fmt", wait |-> 0, text |-> <<a, ": ", b>>]

\* The error items a body may list.
ErrorItems ==
    {[Name |-> "asset_id", Reason |-> "missing"],
     [Name |-> "name", Reason |-> "too long"]}

\* The `errors` lists of a body: absent or empty, or up to two items.
ErrorLists ==
    {<<>>} \cup {<<a>> : a \in ErrorItems}
           \cup {<<a, b>> : a \in ErrorItems, b \in ErrorItems}

\* A response body, by what json.Unmarshal makes of it: valid says whether it
\* is JSON at all; dest how it fits the caller's destination type ("ok", or a
\* value of the wrong type in a field, "field", or at the top, "top"); api
\* whether it fits APIError, and errors its list of error items.
Bodies ==
    {[valid |-> FALSE, dest |-> "top", api |-> "mismatch", errors |-> <<>>]}
    \cup [valid : {TRUE}, dest : {"ok", "field", "top"}, api : {"mismatch"},
          errors : {<<>>}]
    \cup [valid : {TRUE}, dest : {"ok", "field", "top"}, api : {"ok"},
          errors : ErrorLists]

\* A nil body: no bytes, which is no JSON.
NoBody == [valid |-> FALSE, dest |-> "top", api |-> "mismatch", errors |-> <<>>]

\* json.Unmarshal(body, target), target being the caller's dest ("dest") or
\* an APIError ("api"): its error and the target afterwards.  Invalid JSON is
\* rejected before anything is written; a value of the wrong type in a field
\* is skipped, the rest is written and the error is returned at the end.
Unmarshal(body, target, value) ==
    IF ~body.valid
    THEN [err |-> [kind |-> "json.SyntaxError", wait |-> 0], value |-> value]
    ELSE IF body[target] = "ok"
    THEN [err |-> NoError, value |-> "decoded"]
    ELSE IF body[target] = "field"
    THEN [err |-> [kind |-> "json.UnmarshalTypeError", wait |-> 0],
          value |-> "partial"]
    ELSE [err |-> [kind |-> "json.UnmarshalTypeError", wait |-> 0],
          value |-> value]

\* A GetFirstError that returns the last item.
GetLastError(errs) ==
    IF Len(errs) > 0 THEN errs[Len(errs)]
    ELSE [Name |-> "Unknown", Reason |-> ""]

\* APIError.GetFirstError
GetFirstError(errs) ==
    IF Len(errs) > 0 THEN errs[1]
    ELSE [Name |-> "Unknown", Reason |-> ""]

\* ReqBuf's error branches: the body decoded as an APIError, and `otherwise`
\* returned when it cannot be.
ErrorBranch(body, otherwise) ==
    LET message == Unmarshal(body, "api", "zero")
        apiErr == GetFirstError(body.errors)
    IN  IF message.err # NoError
        THEN IF otherwise = NoError THEN message.err ELSE otherwise
        ELSE Errorf(apiErr.Name, apiErr.Reason)

\* A ReqBuf that decodes into dest whatever the status.
ReqBufAnyStatus(res, dest) ==
    LET got == Unmarshal(res.body, "dest", dest)
    IN  IF res.err # NoError
        THEN [value |-> "nil", err |-> res.err, dest |-> dest]
        ELSE IF got.err # NoError
        THEN [value |-> "nil", err |-> got.err, dest |-> got.value]
        ELSE [value |-> "dest", err |-> NoError, dest |-> got.value]

\* A ReqBuf whose 401 and 404 branches wrap their sentinels in a new error.
ReqBufWrapping(res, dest) ==
    LET fail(err) == [value |-> "nil", err |-> err, dest |-> dest]
        got == Unmarshal(res.body, "dest", dest)
    IN  IF res.err # NoError THEN fail(res.err)
        ELSE IF res.status \in {StatusOK, StatusCreated}
        THEN IF got.err # NoError
             THEN [value |-> "nil", err |-> got.err, dest |-> got.value]
             ELSE [value |-> "dest", err |-> NoError, dest |-> got.value]
        ELSE IF res.status = StatusBadRequest
        THEN fail(ErrorBranch(res.body, NoError))
        ELSE fail(ErrorBranch(res.body,
                              Errorf("resource not found",
                                     "invalid response content")))

\* A ReqBuf whose default branch returns the sentinel ErrNotFound.
ReqBufDefaultNotFound(res, dest) ==
    LET fail(err) == [value |-> "nil", err |-> err, dest |-> dest]
        got == Unmarshal(res.body, "dest", dest)
    IN  IF res.err # NoError THEN fail(res.err)
        ELSE IF res.status \in {StatusOK, StatusCreated}
        THEN IF got.err # NoError
             THEN [value |-> "nil", err |-> got.err, dest |-> got.value]
             ELSE [value |-> "dest", err |-> NoError, dest |-> got.value]
        ELSE IF res.status = StatusBadRequest
        THEN fail(ErrorBranch(res.body, NoError))
        ELSE IF res.status = StatusUnauthorized
        THEN fail(ErrorBranch(res.body, ErrApiKeyInvalid))
        ELSE IF res.status = StatusTooManyRequests
        THEN fail(ErrorBranch(res.body, ErrRateLimited))
        ELSE fail(ErrorBranch(res.body, ErrNotFound))

\* HTTPAPI.ReqBuf, given what g.Req returned: the value and error it returns
\* and the caller's destination value afterwards.
ReqBuf(res, dest) ==
    LET fail(err) == [value |-> "nil", err |-> err, dest |-> dest]
        got == Unmarshal(res.body, "dest", dest)
    IN  IF res.err # NoError THEN fail(res.err)
        ELSE IF res.status \in {StatusOK, StatusCreated}
        THEN IF got.err # NoError
             THEN [value |-> "nil", err |-> got.err, dest |-> got.value]
             ELSE [value |-> "dest", err |-> NoError, dest |-> got.value]
        ELSE IF res.status = StatusBadRequest
        THEN fail(ErrorBranch(res.body, NoError))
        ELSE IF res.status = StatusNotFound
        THEN fail(ErrorBranch(res.body, ErrNotFound))
        ELSE IF res.status = StatusUnauthorized
        THEN fail(ErrorBranch(res.body, ErrApiKeyInvalid))
        ELSE IF res.status = StatusTooManyRequests
        THEN fail(ErrorBranch(res.body, ErrRateLimited))
        ELSE fail(ErrorBranch(res.body,
                              Errorf("resource not found",
                                     "invalid response content")))

\* The statuses a server answers with.
BufStatuses ==
    {StatusOK, StatusCreated, 202, 204, 301, StatusBadRequest,
     StatusUnauthorized, StatusNotFound, StatusTooManyRequests, 500}

\* What g.Req (reqBase) returns: an error of its own with status 0, a 429 as
\* ErrRateLimited without a body, or any other response as it came, the
\* read of its body having failed or not.
ReqResults ==
    {[body |-> NoBody, status |-> 0, err |-> e] :
        e \in {[kind |-> "transport", wait |-> 0], WrapRateLimited(Minute),
               [kind |-> "rate: would exceed deadline", wait |-> 0]}}
    \cup {[body |-> NoBody, status |-> StatusTooManyRequests, err |-> e] :
        e \in {ErrRateLimited, WrapRateLimited(7)}}
    \cup [body : Bodies, status : BufStatuses \ {StatusTooManyRequests},
          err : {NoError, [kind |-> "read", wait |-> 0]}]

\* The payloads of ReqJSON: none, one that marshals, one that does not.
Payloads == {"nil", "value", "unmarshalable"}

\* A ReqJSON call with payload post and destination dest, on a client whose
\* g.Req will return res.
InitBuf ==
    /\ \E n \in Limits : InitClient({1}, MaxTime, Plain, n, n * Minute)
    /\ \E post \in Payloads, res \in ReqResults, dest \in {"zero", "old"} :
         buf = [stage |-> "call", post |-> post, res |-> res, dest |-> dest,
                before |-> dest, sentBody |-> "none", called |-> FALSE,
                value |-> "nil", err |-> NoError]

\* A ReqJSON that goes on to ReqBuf with an empty buffer when json.Marshal
\* fails.
ReqJSONMarshalIgnoringError ==
    /\ buf.stage = "call"
    /\ buf' = [buf EXCEPT !.stage = "marshalled",
                          !.sentBody = IF buf.post = "value" THEN "json"
                                       ELSE "empty"]
    /\ UNCHANGED <<now, heap, rateLimiter, procs, horizon, server, fill, reconf,
                   pc, loc, calls, hist, latest, waited, returned>>

\* ReqJSON up to its call of ReqBuf: json.Marshal(post) unless post is nil.
ReqJSONMarshal ==
    /\ buf.stage = "call"
    /\ buf' = IF buf.post = "unmarshalable"
              THEN [buf EXCEPT !.stage = "done", !.value = "nil",
                               !.err = [kind |-> "json.MarshalError", wait |-> 0]]
              ELSE [buf EXCEPT !.stage = "marshalled",
                               !.sentBody = IF buf.post = "nil" THEN "empty"
                                            ELSE "json"]
    /\ UNCHANGED <<now, heap, rateLimiter, procs, horizon, server, fill, reconf,
                   pc, loc, calls, hist, latest, waited, returned>>

\* ReqJSON from its call of ReqBuf (which calls g.Req) to its return.
ReqJSONReqBuf ==
    /\ buf.stage = "marshalled"
    /\ LET got == ReqBuf(buf.res, buf.dest)
       IN  buf' = [buf EXCEPT !.stage = "done", !.called = TRUE,
                              !.dest = got.dest,
                              !.value = IF got.err # NoError THEN got.value
                                        ELSE "dest",
                              !.err = got.err]
    /\ UNCHANGED <<now, heap, rateLimiter, procs, horizon, server, fill, reconf,
                   pc, loc, calls, hist, latest, waited, returned>>

NextBuf ==
    \/ ReqJSONMarshal
    \/ ReqJSONReqBuf

SpecBuf == InitBuf /\ [][NextBuf]_vars

\* ------------------------------------------------- the timestamp-log client
\* NewRateLimiter(limit) of the timestamp-log version: an empty log and a
\* window of one minute.
NewRateLimiterLog(limit) ==
    [limit |-> limit, windowMinutes |-> 1, requests |-> <<>>]

\* An IsAllowed that denies only when the log holds more than limit entries.
IsAllowedLogOffByOne(lim, t) ==
    LET windowStart == t - Minute * lim.windowMinutes
        validRequests == SelectSeq(lim.requests, LAMBDA x : x > windowStart)
    IN  IF Len(validRequests) > lim.limit
        THEN [lim |-> [lim EXCEPT !.requests = validRequests],
              ok |-> FALSE,
              waitTime |-> validRequests[1] + Minute * lim.windowMinutes - t]
        ELSE [lim |-> [lim EXCEPT !.requests = Append(validRequests, t)],
              ok |-> TRUE,
              waitTime |-> 0]

\* An IsAllowed that does not drop the expired entries from the log.
IsAllowedLogKeepingExpired(lim, t) ==
    IF Len(lim.requests) >= lim.limit
    THEN [lim |-> lim,
          ok |-> FALSE,
          waitTime |-> lim.requests[1] + Minute * lim.windowMinutes - t]
    ELSE [lim |-> [lim EXCEPT !.requests = Append(lim.requests, t)],
          ok |-> TRUE,
          waitTime |-> 0]

\* RateLimiter.RemainingRequests of the timestamp-log version at time t.
RemainingRequests(lim, t) ==
    LET windowStart == t - Minute * lim.windowMinutes
        validCount == Len(SelectSeq(lim.requests, LAMBDA x : x > windowStart))
    IN  lim.limit - validCount

\* RateLimiter.IsAllowed of the timestamp-log version at time t, under its
\* mutex: the limiter after it, the verdict and the wait.
IsAllowedLog(lim, t) ==
    LET windowStart == t - Minute * lim.windowMinutes
        validRequests == SelectSeq(lim.requests, LAMBDA x : x > windowStart)
    IN  IF Len(validRequests) >= lim.limit
        THEN [lim |-> [lim EXCEPT !.requests = validRequests],
              ok |-> FALSE,
              waitTime |-> validRequests[1] + Minute * lim.windowMinutes - t]
        ELSE [lim |-> [lim EXCEPT !.requests = Append(validRequests, t)],
              ok |-> TRUE,
              waitTime |-> 0]

\* reqBase of the timestamp-log version: g.rateLimiter.IsAllowed(), and on a
\* denial time.After(waitTime).
ProbeLog(c) ==
    /\ c \in procs
    /\ pc[c] = "idle"
    /\ calls < MaxCalls
    /\ calls' = calls + 1
    /\ LET l == rateLimiter
           got == IsAllowedLog(heap[l], now)
       IN  /\ heap' = [heap EXCEPT ![l] = got.lim]
           /\ Log(Outcome("IsAllowed", l, now, got.ok, got.waitTime, 0))
           /\ IF got.ok
              THEN /\ loc' = [loc EXCEPT ![c] = [Fresh EXCEPT !.lim = l, !.sent = 1]]
                   /\ pc' = [pc EXCEPT ![c] = "inflight"]
              ELSE /\ loc' = [loc EXCEPT ![c] =
                                [Fresh EXCEPT !.lim = l, !.hint = got.waitTime,
                                              !.since = now,
                                              !.wake = now + got.waitTime]]
                   /\ pc' = [pc EXCEPT ![c] = "sleep"]
    /\ UNCHANGED <<now, rateLimiter, env, returned>>

\* reqBase of the timestamp-log version from parseRateLimitHeaders to its
\* return, on the response resp.
HandleResponseLog(c, resp) ==
    LET rateInfo == parseRateLimitHeaders(resp)
    IN  IF resp.status = StatusTooManyRequests /\ rateInfo.RetryAfter > 0
        THEN /\ IF rateInfo.Limit > 0 /\ rateInfo.Limit # heap[rateLimiter].limit
                THEN /\ heap' = Append(heap, NewRateLimiterLog(rateInfo.Limit))
                     /\ rateLimiter' = Len(heap) + 1
                ELSE UNCHANGED <<heap, rateLimiter>>
             /\ Return(c, "nil", resp.status, ErrRateLimited, rateInfo)
        ELSE /\ UNCHANGED <<heap, rateLimiter>>
             /\ Return(c, "data", resp.status,
                       IF resp.readErr THEN [kind |-> "read", wait |-> 0]
                       ELSE NoError,
                       rateInfo)

RespondLog(c) ==
    /\ pc[c] = "inflight"
    /\ \E resp \in server :
         /\ HandleResponseLog(c, resp)
         /\ Len(heap') <= MaxLimiters
    /\ UNCHANGED <<now, env, calls, hist, latest, waited>>

InitLogWith(P, S) ==
    /\ now = 0
    /\ \E n \in Limits : heap = <<NewRateLimiterLog(n)>>
    /\ rateLimiter = 1
    /\ procs = P
    /\ horizon = MaxTimeLog
    /\ server = S
    /\ fill = 0
    /\ reconf = NoReconf
    /\ buf = NoBuf
    /\ pc = [c \in Callers |-> "idle"]
    /\ loc = [c \in Callers |-> Fresh]
    /\ calls = 0
    /\ hist = EmptyBag
    /\ latest = NoOutcome
    /\ waited = NoOutcome
    /\ returned = NoResult

\* Two goroutines against a server that never throttles, or one goroutine
\* against a throttling server.
InitLog ==
    \/ InitLogWith({1, 2}, Plain)
    \/ InitLogWith({1}, Throttling)

NextLog ==
    \/ Tick
    \/ \E c \in Callers :
         \/ ProbeLog(c)
         \/ SleepWake(c)
         \/ TransportError(c)
         \/ RespondLog(c)

SpecLog == InitLog /\ [][NextLog]_vars

\* ------------------------------------- the request built, the headers parsed
\* textproto.CanonicalMIMEHeaderKey, which Header.Set and Header.Get apply to
\* the key, on the keys of HeaderKeys.
CanonicalKey(k) == IF k = "authorization" THEN "Authorization" ELSE k

\* Header.Set(key, value) on the header h, a map from keys to value lists.
HeaderSet(h, key, value) ==
    [k \in DOMAIN h \cup {CanonicalKey(key)} |->
        IF k = CanonicalKey(key) THEN <<value>> ELSE h[k]]

\* fmt.Sprintf("Bearer %s", apiKey)
Bearer(apiKey) == <<"Bearer ", apiKey>>

\* The keys and the values of ReqOptions.Headers.
HeaderKeys == {"Authorization", "authorization", "X-Org"}
HeaderValues == {<<"Basic ", "dXNlcg==">>, <<"Bearer ", "other">>, <<"acme">>}
\* A map[string]string of headers; the nil map is the empty one.
HeaderMaps == UNION {[K -> HeaderValues] : K \in SUBSET HeaderKeys}
\* The variadic options of reqBase: none, or one ReqOptions (only the first
\* is looked at; its Params go to the URL, not to the header).
OptionLists == {<<>>} \cup {<<[Headers |-> m]>> : m \in HeaderMaps}
APIKeys == {"k1", "other"}

\* reqBase from http.NewRequest to client.Do: the header of the request it
\* sends.  The caller's headers are stored under their keys as given.
reqBaseHeader(apiKey, isJSON, options) ==
    LET none == [k \in {} |-> <<>>]
        accept == IF isJSON THEN HeaderSet(none, "Accept", <<"application/json">>)
                  ELSE none
        auth == HeaderSet(accept, "Authorization", Bearer(apiKey))
        Headers == IF Len(options) > 0 THEN options[1].Headers ELSE none
    IN  [k \in DOMAIN auth \cup DOMAIN Headers |->
            IF k \in DOMAIN Headers THEN <<Headers[k]>> ELSE auth[k]]

\* The values of a rate-limit header of a response; <<>> is an absent one.
WireValues ==
    {<<>>, <<"0">>, <<"7">>, <<"1", "2">>, <<"+", "5">>, <<"-", "1">>, <<"x">>,
     <<"7", "s">>, <<"-">>, <<"9", "9", "9">>, <<"-", "9", "9", "9">>}

\* One reqBase call between its admission and its return: the request is
\* built and sent, and the rate-limit headers of the response are parsed.
InitWire ==
    /\ InitClient({1}, MaxTime, Plain, MaxLimit, MaxLimit * Minute)
    /\ \E apiKey \in APIKeys, isJSON \in BOOLEAN, options \in OptionLists :
       \E limit \in WireValues, retryAfter \in WireValues :
         buf = [stage |-> "build", APIKey |-> apiKey, isJSON |-> isJSON,
                options |-> options, header |-> [k \in {} |-> <<>>],
                response |-> [limit |-> limit, retryAfter |-> retryAfter],
                rateInfo |-> NoRateInfo]

\* reqBase builds the request and g.client.Do sends it.
BuildRequest ==
    /\ buf.stage = "build"
    /\ buf' = [buf EXCEPT !.stage = "sent",
                          !.header = reqBaseHeader(buf.APIKey, buf.isJSON,
                                                   buf.options)]
    /\ UNCHANGED <<now, heap, rateLimiter, procs, horizon, server, fill, reconf,
                   pc, loc, calls, hist, latest, waited, returned>>

\* reqBase: rateInfo := parseRateLimitHeaders(response.Header)
ParseResponse ==
    /\ buf.stage = "sent"
    /\ buf' = [buf EXCEPT !.stage = "parsed",
                          !.rateInfo = parseRateLimitHeaders(buf.response)]
    /\ UNCHANGED <<now, heap, rateLimiter, procs, horizon, server, fill, reconf,
                   pc, loc, calls, hist, latest, waited, returned>>

NextWire ==
    \/ BuildRequest
    \/ ParseResponse

SpecWire == InitWire /\ [][NextWire]_vars

\* ------------------------------------------ goroutines sharing one client
\* A server that corrects the client's budget: plain answers, and 429s that
\* carry x-ratelimit-limit.
Correcting ==
    Plain \cup {r \in Responses : /\ r.status = StatusTooManyRequests
                                  /\ r.limit \in {<<Digits[n + 1]>> : n \in Limits}
                                  /\ r.retryAfter = <<>>}

\* Two goroutines calling Req on one client that has been in use.
InitShared ==
    \E n \in Limits : \E tokens \in {n * Minute, 0, Minute - 2 * n} :
        InitWith({1, 2}, MaxTime, Correcting, n, tokens)

SpecShared == InitShared /\ [][Next]_vars

\* The next step of goroutine c reads the field g.rateLimiter: reqBase at its
\* entry (g.rateLimiter.IsAllowed()), before WaitMaxDuration, and in the
\* comparison with g.rateLimiter.limit on a 429 that carries a limit.
ReadsRateLimiter(c) ==
    \/ pc[c] = "idle" /\ calls < MaxCalls
    \/ pc[c] = "waitctx"
    \/ /\ pc[c] = "inflight"
       /\ \E resp \in server : /\ resp.status = StatusTooManyRequests
                               /\ parseRateLimitHeaders(resp).Limit > 0

\* The next step of goroutine c may assign g.rateLimiter: SetRateLimit called
\* from the 429 handling with a limit that differs.
WritesRateLimiter(c) ==
    /\ pc[c] = "inflight"
    /\ \E resp \in server :
         /\ resp.status = StatusTooManyRequests
         /\ parseRateLimitHeaders(resp).Limit > 0
         /\ parseRateLimitHeaders(resp).Limit # heap[rateLimiter].limit

\* The mutexes goroutine c holds while it reads or assigns g.rateLimiter:
\* HTTPAPI has none, and a limiter's own mutex is taken only after the field
\* has been read.
LocksHeld(c) == {}

\* ------------------------------------- one caller, small and large budgets
\* The capacities of the sequential client: the small ones, and the smallest
\* one that refills a token within five seconds.
SeqLimits == Limits \cup {Minute \div FiveSec}

\* One goroutine calling a client that has been in use: the bucket full,
\* empty, or holding one token (large budget) or ten seconds short of one
\* (small budget).
InitDefault ==
    \E n \in SeqLimits :
      \E tokens \in {n * Minute, 0,
                     IF n * FiveSec >= Minute THEN Minute ELSE Minute - 2 * n} :
        InitWith({1}, MaxTime, Plain, n, tokens)

SpecDefault == InitDefault /\ [][Next]_vars

\* ------------------------------------------- GetJSON, one call at a time
\* The bodies a response is followed with here: no JSON, JSON that fits the
\* destination, and an APIError with one error item.
GetBodies ==
    {b \in Bodies : \/ ~b.valid
                    \/ b.dest = "ok" /\ b.api = "mismatch"
                    \/ b.dest = "top" /\ b.api = "ok" /\ Len(b.errors) = 1
                                      /\ b.errors[1].Name = "name"}

\* One goroutine calling GetJSON on a client in use, against a throttling
\* server: the call is in g.Req.
InitGet ==
    /\ \E n \in Limits : \E tokens \in {n * Minute, 0, Minute - 2 * n} :
         InitClient({1}, MaxTime, Throttling, n, tokens)
    /\ buf = [stage |-> "req", res |-> [body |-> NoBody, status |-> 0,
                                        err |-> NoError],
              dest |-> "zero", value |-> "nil", err |-> NoError]

\* ReqBuf after g.Req has returned: the error check and the status switch.
\* The body reqBase read is one of GetBodies; a nil body is no JSON.
ReqBufSwitch ==
    /\ buf.stage = "req"
    /\ returned # NoResult
    /\ \E body \in IF returned.body = "data" THEN GetBodies ELSE {NoBody} :
         LET res == [body |-> body, status |-> returned.status,
                     err |-> returned.err]
             got == ReqBuf(res, "zero")
         IN  buf' = [stage |-> "done", res |-> res, dest |-> got.dest,
                     value |-> got.value, err |-> got.err]
    /\ UNCHANGED <<now, heap, rateLimiter, procs, horizon, server, fill, reconf,
                   pc, loc, calls, hist, latest, waited, returned>>

\* The goroutine calls GetJSON again: ReqJSON with a nil payload calls ReqBuf,
\* which calls g.Req.
GetJSON ==
    /\ buf.stage = "done"
    /\ calls < MaxCalls
    /\ buf' = [stage |-> "req", res |-> [body |-> NoBody, status |-> 0,
                                         err |-> NoError],
               dest |-> "zero", value |-> "nil", err |-> NoError]
    /\ returned' = NoResult
    /\ UNCHANGED <<now, heap, rateLimiter, procs, horizon, server, fill, reconf,
                   pc, loc, calls, hist, latest, waited>>

\* The call is in g.Req, which has not returned.
InReq == buf.stage = "req" /\ returned = NoResult

\* g.Req runs until it has returned; then ReqBuf goes on.
NextGet ==
    \/ Tick
    \/ GetJSON
    \/ ReqBufSwitch
    \/ \E c \in Callers :
         \/ InReq /\ ProbeReserve(c)
         \/ InReq /\ ProbeDelay(c)
         \/ InReq /\ ProbeCancel(c)
         \/ InReq /\ SleepWake(c)
         \/ InReq /\ WaitEnter(c)
         \/ InReq /\ WaitTimer(c)
         \/ InReq /\ WaitCtxDone(c)
         \/ InReq /\ TransportError(c)
         \/ InReq /\ Respond(c)

SpecGet == InitGet /\ [][NextGet]_vars

TypeOK ==
    /\ now \in 0..horizon
    /\ rateLimiter \in 1..Len(heap)
    /\ calls \in 0..MaxCalls

\* ------------------------------------------------------------- properties
\* The admissions limiter l granted at the times from..to.
RECURSIVE AdmittedIn(_, _, _)
AdmittedIn(l, from, to) ==
    IF from > to THEN 0
    ELSE CopiesIn(<<l, from>>, hist) + AdmittedIn(l, from + 1, to)

\* The admissions limiter l granted in the minute that ends at T, T included.
AdmittedInWindow(l, T) == AdmittedIn(l, T - Minute + 1, T)

\* No limiter granted more admissions than its capacity in any window.
WindowBounded ==
    \A l \in 1..Len(heap) : \A T \in 0..now :
        AdmittedInWindow(l, T) <= heap[l].limit

C2_LogBounded ==
    /\ \A l \in 1..Len(heap) : Len(heap[l].requests) <= heap[l].limit
    /\ (latest.op = "IsAllowed" /\ latest.t = now) =>
          \A i \in 1..Len(heap[latest.lim].requests) :
              heap[latest.lim].requests[i] > now - Minute
    /\ WindowBounded

\* A limiter that refused, then a minute after its first admission dropped
\* that timestamp and admitted again, its log full.
C2_Witness ==
    /\ latest.op = "IsAllowed" /\ latest.ok /\ latest.t = now
    /\ now >= Minute
    /\ BagIn(<<latest.lim, now - Minute>>, hist)
    /\ Len(heap[latest.lim].requests) = heap[latest.lim].limit
    /\ \E c \in Callers : pc[c] = "sleep"

\* C3: whenever IsAllowed returns false the limiter's capacity after the
\* call is its capacity before the call: the Cancel gave the whole token
\* back, whatever other callers' Reserve and Cancel interleaved.
C3_DeniedProbeConsumesNothing ==
    (latest.op = "IsAllowed" /\ ~latest.ok) => latest.leak = 0

\* Goroutine c's IsAllowed call returns on this step.
ProbeReturns(c) ==
    /\ pc[c] \in {"probe", "cancel"}
    /\ pc'[c] \notin {"probe", "cancel"}

FreshAtZero == fill = heap[1].limit * Minute /\ now = 0

\* C5: K > N IsAllowed calls at one instant on a new limiter of capacity N:
\* exactly N return (true, 0), and every refusal carries a wait above 0.
C5_ExactlyNAdmitted ==
    FreshAtZero =>
      /\ ( /\ calls > heap[1].limit
           /\ \A c \in Callers : pc[c] \notin {"probe", "cancel"} )
         => AdmittedIn(1, 0, 0) = heap[1].limit
      /\ (latest.op = "IsAllowed" /\ ~latest.ok /\ latest.t = 0)
         => latest.hint > 0
      /\ (latest.op = "IsAllowed" /\ latest.ok) => latest.hint = 0

\* N = 2 and K = 3: all three probes are back, two admitted and the last
\* one refused.
C5_Witness ==
    /\ FreshAtZero
    /\ heap[1].limit = 2 /\ calls = 3
    /\ \A c \in Callers : pc[c] \notin {"idle", "probe", "cancel"}
    /\ AdmittedIn(1, 0, 0) = 2
    /\ latest.op = "IsAllowed" /\ ~latest.ok /\ latest.hint > 0

\* reqBase returned without having sent a request, the probe's estimate
\* having been above 5 seconds.
LocalAdmissionFailed ==
    returned.body = "nil" /\ returned.sent = 0 /\ returned.hint > FiveSec

\* C6: when local admission fails, reqBase's error is ErrRateLimited
\* (errors.Is) and carries the probe's estimated wait, and nothing was sent.
C6_LocalFailureIsRateLimited ==
    LocalAdmissionFailed =>
      /\ IsRateLimited(returned.err)
      /\ returned.err.wait = returned.hint

\* C7: when WaitMaxDuration returns an error the limiter's capacity is what
\* it would be had the call not been made: nothing of the token is kept.
C7_FailedWaitConsumesNothing ==
    (waited.op = "Wait" /\ ~waited.ok) => waited.leak = 0

\* C8: whatever blocks a caller in reqBase's admission step releases it
\* within 5 seconds: the timer armed on a refusal, or the wait's context.
C8_AdmissionWithinFiveSeconds ==
    \A c \in Callers :
        /\ pc[c] = "sleep" => loc[c].wake - loc[c].since <= FiveSec
        /\ pc[c] \in {"waitctx", "waiting"} =>
              loc[c].deadline - loc[c].since <= FiveSec

\* C9: for a response of status 429 reqBase returns a nil body and an error
\* that is ErrRateLimited, with the retry-after seconds when they are above 0.
C9_TooManyRequestsIsError ==
    returned.status = StatusTooManyRequests =>
      /\ returned.body = "nil"
      /\ IsRateLimited(returned.err)
      /\ returned.rateInfo.RetryAfter > 0 =>
            returned.err.wait = returned.rateInfo.RetryAfter

\* C10: on the step that handles a response, the limiter is replaced by a
\* new one of capacity L exactly when the status is 429 and the advertised
\* L is above 0 and differs from the current capacity; otherwise the limiter
\* and its state stay as they are.
C10_ReplacedExactlyOnNewLimit ==
    [][ \A c \in Callers :
          (pc[c] = "inflight" /\ pc'[c] = "idle") =>
            LET L == returned'.rateInfo.Limit
            IN  IF /\ returned'.status = StatusTooManyRequests
                   /\ L > 0
                   /\ L # heap[rateLimiter].limit
                THEN /\ Len(heap') = Len(heap) + 1
                     /\ rateLimiter' = Len(heap')
                     /\ heap'[rateLimiter'].limit = L
                     /\ SubSeq(heap', 1, Len(heap)) = heap
                ELSE heap' = heap /\ rateLimiter' = rateLimiter ]_vars

\* C11: SetRateLimit(x) with x non-positive or equal to the current capacity
\* changes nothing: the client holds the same limiter object, in the same
\* state, after the call.
C11_SetRateLimitNoOp ==
    [][ ( /\ reconf' # reconf
          /\ (reconf'.x <= 0 \/ reconf'.x = heap[rateLimiter].limit) )
        => (rateLimiter' = rateLimiter /\ heap' = heap) ]_vars

\* C12: the capacity of the client's limiter is above 0 in every state the
\* public operations and the server's responses lead to.
C12_CapacityPositive ==
    heap[rateLimiter].limit > 0

\* C13: NewRateLimiter yields no limiter for a rate that is not positive:
\* every limiter that exists has a capacity above 0, equal to its burst.
C13_NoLimiterOfNonPositiveRate ==
    \A l \in 1..Len(heap) :
        heap[l].limit > 0 /\ heap[l].burst = heap[l].limit

\* C14: after SetRateLimit(x), x > 0, and with no time passed, the new
\* limiter has admitted at most x calls, and it refuses a call only once it
\* has admitted x: the first x calls are admitted, the next one is refused.
C14_ReconfiguredAdmitsExactlyX ==
    (reconf.lim # 0 /\ reconf.x > 0 /\ now = reconf.t) =>
      LET admitted == AdmittedIn(reconf.lim, now, now)
      IN  /\ admitted <= reconf.x
          /\ ( /\ latest.op = "IsAllowed" /\ latest.lim = reconf.lim
               /\ ~latest.ok )
             => (admitted = reconf.x /\ latest.hint > 0)
          /\ ( /\ \E c \in Callers : pc[c] = "probe" /\ loc[c].lim = reconf.lim
               /\ admitted < reconf.x )
             => \A c \in Callers :
                  (pc[c] = "probe" /\ loc[c].lim = reconf.lim)
                    => (loc[c].r.ok /\ DelayFrom(loc[c].r, now) = 0)

\* SetRateLimit(2) on a drained limiter of another capacity, then three
\* calls at once: two admitted, the third just refused.
C14_Witness ==
    /\ fill = 0
    /\ reconf.x = 2 /\ reconf.lim = 2 /\ reconf.t = now
    /\ heap[reconf.was].limit # 2
    /\ calls = 3
    /\ AdmittedIn(2, now, now) = 2
    /\ latest.op = "IsAllowed" /\ latest.lim = 2 /\ ~latest.ok

\* C20: a reqBase call sends at most one HTTP request, and a transport
\* failure comes back with status 0, no body and the one send made.
C20_AtMostOneSend ==
    /\ \A c \in Callers : loc[c].sent <= 1
    /\ returned.sent <= 1
    /\ returned.err.kind = "transport" =>
          (returned.status = 0 /\ returned.body = "nil" /\ returned.sent = 1)
    /\ returned.status # 0 => returned.sent = 1

\* A transport failure has come back after one send, on a client whose
\* limiter has been replaced.
C20_Witness ==
    /\ returned.err.kind = "transport" /\ returned.sent = 1
    /\ calls >= 2
    /\ \E l \in 1..Len(heap) : heap[l].limit # heap[1].limit

\* A ReqJSON call has come back through ReqBuf.
BufDone == buf.stage = "done" /\ buf.called

\* json.Unmarshal cannot decode the body as an APIError.
Undecodable(body) == Unmarshal(body, "api", "zero").err # NoError

Sentinels == {ErrApiKeyInvalid.kind, ErrNotFound.kind, ErrRateLimited.kind}

\* C15: ReqBuf returns a value with a nil error only for status 200 or 201;
\* for every other status it returns nil and an error and leaves the
\* caller's destination value as it was.
C15_SuccessOnlyOn200And201 ==
    BufDone =>
      /\ (buf.value # "nil" /\ buf.err = NoError) =>
            buf.res.status \in {StatusOK, StatusCreated}
      /\ buf.res.status \notin {StatusOK, StatusCreated} =>
            /\ buf.value = "nil"
            /\ buf.err # NoError
            /\ buf.dest = buf.before

\* A 204 whose body would decode into the destination, come back as an error.
C15_Witness ==
    /\ BufDone
    /\ buf.res.status = 204 /\ buf.res.err = NoError
    /\ buf.res.body.valid /\ buf.res.body.dest = "ok"
    /\ buf.value = "nil" /\ buf.err # NoError /\ buf.dest = "old"

\* C16: when the body does not decode as an APIError, ReqBuf returns the
\* sentinel ErrApiKeyInvalid itself for 401, ErrNotFound itself for 404, and
\* for 400 an error that is none of the three sentinels.
C16_SentinelsOnUndecodableBody ==
    (BufDone /\ buf.res.err = NoError /\ Undecodable(buf.res.body)) =>
      /\ buf.res.status = StatusUnauthorized => buf.err = ErrApiKeyInvalid
      /\ buf.res.status = StatusNotFound => buf.err = ErrNotFound
      /\ buf.res.status = StatusBadRequest =>
            (buf.err # NoError /\ buf.err.kind \notin Sentinels)

\* A 401 with a body that is no JSON, come back as ErrApiKeyInvalid.
C16_Witness ==
    /\ BufDone
    /\ buf.res.status = StatusUnauthorized /\ buf.res.err = NoError
    /\ ~buf.res.body.valid
    /\ buf.err = ErrApiKeyInvalid /\ buf.value = "nil"

\* C17: for a status other than 200 and 201 whose body decodes as an
\* APIError, the error reads "<name>: <reason>" of the first error item, or
\* "Unknown: " when there is none, and is a new error, never a sentinel.
C17_FirstErrorItemText ==
    ( /\ BufDone /\ buf.res.err = NoError
      /\ buf.res.status \notin {StatusOK, StatusCreated}
      /\ ~Undecodable(buf.res.body) ) =>
      LET errs == buf.res.body.errors
      IN  /\ buf.err.kind = "fmt"
          /\ buf.err.kind \notin Sentinels
          /\ buf.err.text = IF Len(errs) = 0 THEN <<"Unknown", ": ", "">>
                            ELSE <<errs[1].Name, ": ", errs[1].Reason>>

\* A 404 whose body lists two different error items, the first of them
\* reported.
C17_Witness ==
    /\ BufDone
    /\ buf.res.status = StatusNotFound /\ buf.res.err = NoError
    /\ ~Undecodable(buf.res.body)
    /\ Len(buf.res.body.errors) = 2
    /\ buf.res.body.errors[1] # buf.res.body.errors[2]
    /\ buf.err.text = <<"asset_id", ": ", "missing">>

\* C18: when a 200 or 201 body fails to decode into the destination,
\* ReqBuf and ReqJSON return nil and an error, and the caller's destination
\* value is what it was before the call.
C18_FailedDecodeLeavesDest ==
    ( /\ BufDone /\ buf.res.err = NoError
      /\ buf.res.status \in {StatusOK, StatusCreated}
      /\ Unmarshal(buf.res.body, "dest", buf.before).err # NoError ) =>
      /\ buf.value = "nil"
      /\ buf.err # NoError
      /\ buf.dest = buf.before

\* C19: when the payload does not marshal, ReqJSON returns the marshal error
\* and has not called ReqBuf (so nothing was sent and the limiter was not
\* asked); with a nil payload the request goes out with an empty body.
C19_MarshalFailureSendsNothing ==
    /\ buf.stage # "none" =>
         /\ buf.called => buf.post # "unmarshalable"
         /\ (buf.stage = "done" /\ buf.post = "unmarshalable") =>
               /\ buf.err.kind = "json.MarshalError"
               /\ buf.value = "nil"
               /\ buf.sentBody = "none"
               /\ buf.dest = buf.before
         /\ (buf.stage = "done" /\ buf.post = "nil") =>
               (buf.called /\ buf.sentBody = "empty")
    /\ buf.stage \in {"call", "marshalled"} => ~buf.called

\* A payload that does not marshal: the call is back, ReqBuf not called.
C19_Witness ==
    /\ buf.stage = "done" /\ buf.post = "unmarshalable"
    /\ ~buf.called /\ buf.err.kind = "json.MarshalError"

\* C21: every request reqBase sends carries Authorization: Bearer <APIKey>
\* of the client, whatever options the caller gave.
C21_AuthorizationIsBearerKey ==
    buf.stage \in {"sent", "parsed"} =>
        /\ "Authorization" \in DOMAIN buf.header
        /\ buf.header["Authorization"] = <<Bearer(buf.APIKey)>>

\* The text of a header is an optional sign and one or more digits.
IsInteger(s) ==
    LET digits == IF s # <<>> /\ Head(s) \in {"+", "-"} THEN Tail(s) ELSE s
    IN  digits # <<>> /\ \A i \in 1..Len(digits) : IsDigit(digits[i])

\* The number such a text denotes.
IntegerOf(s) ==
    IF Head(s) = "-" THEN -ParseDigits(Tail(s), 0)
    ELSE IF Head(s) = "+" THEN ParseDigits(Tail(s), 0)
    ELSE ParseDigits(s, 0)

\* What the claim expects of a numeric field: the header's number when it is
\* a valid integer in range, zero otherwise.
ExpectedField(s) ==
    IF IsInteger(s) /\ IntegerOf(s) \in MinInt..MaxInt THEN IntegerOf(s) ELSE 0

\* C22: parseRateLimitHeaders yields zero for every numeric field whose
\* header is absent, malformed or out of the integer range, and the header's
\* number otherwise.
C22_ParsedOrZero ==
    buf.stage = "parsed" =>
        /\ buf.rateInfo.Limit = ExpectedField(buf.response.limit)
        /\ buf.rateInfo.RetryAfter = ExpectedField(buf.response.retryAfter)

\* C23: no two goroutines are about to access g.rateLimiter, one of them
\* assigning it, without a lock in common; every read and every replacement
\* of the limiter reference is ordered by synchronization.
C23_NoUnsynchronizedAccess ==
    \A c \in procs, d \in procs :
        ( /\ c # d
          /\ WritesRateLimiter(d)
          /\ ReadsRateLimiter(c) \/ WritesRateLimiter(c) ) =>
            LocksHeld(c) \cap LocksHeld(d) # {}

\* The stored limit of a limiter object is its bucket's burst, and its
\* refill rate is limit/60 per second.
WellFormed(lim) == lim.limit = lim.burst /\ lim.rps = lim.limit

\* C24: every limiter object there is has its stored limit equal to its
\* burst and its rate; no step changes these fields of an existing limiter,
\* and the client's reference only ever moves to a newly constructed one.
C24_WholeObjectReplacement ==
    /\ \A l \in 1..Len(heap) : WellFormed(heap[l])
    /\ [][ /\ \A l \in 1..Len(heap') : WellFormed(heap'[l])
           /\ Len(heap') >= Len(heap)
           /\ \A l \in 1..Len(heap) : /\ heap'[l].limit = heap[l].limit
                                      /\ heap'[l].rps = heap[l].rps
                                      /\ heap'[l].burst = heap[l].burst
           /\ rateLimiter' # rateLimiter => rateLimiter' > Len(heap) ]_vars

\* SetRateLimit has replaced the limiter with one of another limit while a
\* request that probed the old one is between its probe and its wait.
C24_Witness ==
    /\ reconf.lim = 2 /\ rateLimiter = 2
    /\ pc[1] \in {"cancel", "waitctx"} /\ loc[1].lim = 1
    /\ heap[1].limit # heap[2].limit
    /\ heap[1].limit > 0

\* C25: a request is sent only by a step in which the limiter grants an
\* admission (IsAllowed returns true, or the bounded wait returns nil), so
\* every request sent holds one unit of the limiter's capacity.
C25_SendHoldsToken ==
    [][\A c \in Callers :
          (pc[c] # "inflight" /\ pc'[c] = "inflight") =>
              BagCardinality(hist') = BagCardinality(hist) + 1]_vars

\* C26: the bounded wait of a reqBase call acts on the limiter its probe
\* acted on: the step that enters WaitMaxDuration changes no other limiter,
\* waits on no other limiter and reports no other limiter's verdict.
C26_WaitOnProbedLimiter ==
    [][\A c \in Callers :
          (pc[c] = "waitctx" /\ pc'[c] # "waitctx") =>
              /\ \A l \in 1..Len(heap) :
                    l # loc[c].lim => heap'[l] = heap[l]
              /\ pc'[c] = "waiting" => loc'[c].wlim = loc[c].lim
              /\ waited' # waited => waited'.lim = loc[c].lim]_vars

\* C27: for a response whose status is none of 200, 201, 400, 401, 404 and
\* 429 and whose body does not decode as an APIError, the error ReqBuf
\* returns is no sentinel: errors.Is is false for ErrNotFound,
\* ErrApiKeyInvalid and ErrRateLimited.
C27_UnexpectedStatusIsGeneric ==
    ( /\ BufDone
      /\ buf.res.status \notin {0, StatusOK, StatusCreated, StatusBadRequest,
                                StatusUnauthorized, StatusNotFound,
                                StatusTooManyRequests}
      /\ Undecodable(buf.res.body) ) =>
        /\ buf.err # NoError /\ buf.value = "nil"
        /\ ~errorsIs(buf.err, ErrNotFound)
        /\ ~errorsIs(buf.err, ErrApiKeyInvalid)
        /\ ~errorsIs(buf.err, ErrRateLimited)

\* A 500 with a body that is no JSON, come back as the formatted error.
C27_Witness ==
    /\ BufDone
    /\ buf.res.status = 500 /\ buf.res.err = NoError
    /\ ~buf.res.body.valid
    /\ buf.err = Errorf("resource not found", "invalid response content")

C29_TooManyRequestsBranchUnreachable ==
    /\ returned.status = StatusTooManyRequests => returned.err # NoError
    /\ (buf.stage = "done" /\ buf.res.status = StatusTooManyRequests) =>
          /\ buf.res.err # NoError
          /\ buf.err = buf.res.err
          /\ IsRateLimited(buf.err)
          /\ buf.value = "nil"

\* A 429 with x-ratelimit-retry-after: 7 has gone through ReqBuf and come
\* back as the error reqBase made of it.
C29_Witness ==
    /\ buf.stage = "done"
    /\ buf.res.status = StatusTooManyRequests
    /\ buf.err = WrapRateLimited(7)
    /\ returned.rateInfo.RetryAfter = 7

\* C30: for a timestamp-log limiter of limit >= 1 the log is in time order
\* and RemainingRequests is within 0..limit at any time; when IsAllowed
\* denies, the pruned log is not empty, and the wait it returns is that of
\* the oldest entry and lies in (0, 1 minute].
C30_LogDenialWellDefined ==
    /\ \A l \in 1..Len(heap) :
          heap[l].limit >= 1 =>
            /\ \A i \in 1..Len(heap[l].requests), j \in 1..Len(heap[l].requests) :
                  i <= j => heap[l].requests[i] <= heap[l].requests[j]
            /\ RemainingRequests(heap[l], now) \in 0..heap[l].limit
    /\ (latest.op = "IsAllowed" /\ ~latest.ok /\ heap[latest.lim].limit >= 1) =>
          /\ latest.hint \in 1..Minute
          /\ latest.t = now =>
                /\ heap[latest.lim].requests # <<>>
                /\ latest.hint = heap[latest.lim].requests[1] + Minute - now

\* A limiter of limit two or more, full within one tick: the probe is denied
\* with a wait of a whole minute and nothing remains.
C30_Witness ==
    /\ latest.op = "IsAllowed" /\ ~latest.ok /\ latest.t = now
    /\ latest.hint = Minute
    /\ Len(heap[latest.lim].requests) >= 2
    /\ RemainingRequests(heap[latest.lim], now) = 0

====
